---- MODULE Spec2Model ----
(***************************************************************************)
(* Model of the conversational gateway: the SSRF guard validate_url, the  *)
(* bounded-concurrency feed fetcher RSSService.fetch_feeds_concurrent     *)
(* (lib/utils.py, lib/services.py) and the reply handling of the chat     *)
(* client (chainlint.py).                                                  *)
(*                                                                         *)
(* The specifications that share the module:                               *)
(*   SpecUrl      - validate_url applied to one URL drawn from UrlInputs   *)
(*   SpecFetch    - one call of fetch_feeds_concurrent on the event loop   *)
(*   SpecChat     - the turns of one chat session (main), any reply        *)
(*   SpecDispatch - the same session with the replies that call tools      *)
(*   SpecSessions - a session and a second one on the shared mcp_client    *)
(*   SpecEvents   - the event store of the backend (main_mcp.py)           *)
(*   SpecConfig   - update_config and the cap get_rss_feeds passes on      *)
(*   SpecFetchFair - SpecFetch with the event loop's progress assumed      *)
(***************************************************************************)
EXTENDS Integers, Sequences, FiniteSets, TLC

VARIABLES
    \* --- validate_url applied to one input ---
    url,            \* the URL under validation
    gate,           \* "unchecked" | "accepted" | "rejected"
    \* --- one call of fetch_feeds_concurrent ---
    feed_urls,      \* the input list of the call
    max_concurrent, \* the concurrency cap of the call
    fstage,         \* "idle" | "gathering" | "returned"
    fpc,            \* position of each task
    sem_value,      \* asyncio.Semaphore._value
    sem_waiters,    \* FIFO of tasks suspended in acquire()
    ready,          \* the event loop's ready queue (tasks to step, in order)
    response,       \* what the transport answered to each task's request
    taskResult,     \* the value each task returned
    requests,       \* the URLs session.get was called with, in order
    admitted,       \* the tasks in the order they obtained a slot
    doneOrder,      \* the tasks in the order they finished
    aggregate,      \* the value returned by the call
    \* --- the chat session ---
    session,        \* "none" | "active" | "awaiting" (the model) | "stopped"
    messages,       \* cl.user_session "messages"
    connected,      \* mcp_client.connected
    available_tools,\* mcp_client.available_tools (the tool names)
    content,        \* the model's raw reply of the current turn
    turn,           \* what the current turn did
    presented,      \* the contents the current turn sent to the user
    remote,         \* the backend requests the current turn issued
    peer,           \* a second chat session: "none" | "active" | "awaiting"
                    \* | "stopped"
    \* --- the event store of the backend ---
    events,         \* the module-level list "events"
    clock,          \* int(datetime.now().timestamp())
    answer,         \* the response to the last request on /events
    \* --- the configuration of the backend ---
    config,         \* the module-level dictionary "config"
    updated         \* the response to the last POST /config

urlVars  == <<url, gate>>
fetchVars == <<feed_urls, max_concurrent, fstage, fpc, sem_value, sem_waiters,
               ready, response, taskResult, requests, admitted, doneOrder,
               aggregate>>
chatVars == <<session, messages, connected, available_tools, content, turn, presented,
              remote, peer>>
eventVars == <<events, clock, answer>>
configVars == <<config, updated>>
vars == <<urlVars, fetchVars, chatVars, eventVars, configVars>>

(***************************************************************************)
(* Bounds                                                                  *)
(***************************************************************************)
MaxLabels == 4      \* host names of at most this many dot-separated labels
MaxFeeds  == 3      \* feed lists of at most this many targets
MaxCap    == 2      \* concurrency caps 1..MaxCap

Range(s) == {s[i] : i \in DOMAIN s}

SeqsUpTo(S, n) == UNION {[1..k -> S] : k \in 0..n}

(***************************************************************************)
(* URLs.  A URL is what urlparse makes of it: a scheme, the host name as   *)
(* its dot-separated labels (<<>> when the URL has no host) and a path.    *)
(***************************************************************************)
Schemes == {"http", "https", "ftp"}

NumLabels == {"0", "1", "10", "16", "32", "127", "168", "172", "192"}
Labels == NumLabels \cup {"localhost", "example"}

\* int(label) for the decimal labels of the model
IntOf(l) ==
    CASE l = "0" -> 0 [] l = "1" -> 1 [] l = "10" -> 10 [] l = "16" -> 16
      [] l = "32" -> 32 [] l = "127" -> 127 [] l = "168" -> 168
      [] l = "172" -> 172 [] l = "192" -> 192 [] OTHER -> -1

IsDecimal(l) == l \in NumLabels

\* parsed.hostname.startswith(prefix + '.') for a prefix of whole labels
StartsWithLabels(host, prefix) ==
    /\ Len(host) > Len(prefix)
    /\ \A i \in 1..Len(prefix) : host[i] = prefix[i]

\* validate_url: FALSE is "return False", also through "except Exception"
\* (int() of a non-decimal second label raises ValueError)
validate_url(u) ==
    IF u.scheme \notin {"http", "https"} THEN FALSE
    ELSE IF u.host \in {<<"localhost">>, <<"127", "0", "0", "1">>,
                        <<"0", "0", "0", "0">>} THEN FALSE
    ELSE IF u.host # <<>> /\ StartsWithLabels(u.host, <<"192", "168">>)
         THEN FALSE
    ELSE IF u.host # <<>> /\ StartsWithLabels(u.host, <<"10">>) THEN FALSE
    ELSE IF u.host # <<>> /\ StartsWithLabels(u.host, <<"172">>)
            /\ Len(u.host) = 4
            /\ (~IsDecimal(u.host[2])
                \/ (16 <= IntOf(u.host[2]) /\ IntOf(u.host[2]) <= 31))
         THEN FALSE
    ELSE TRUE

UrlInputs ==
    [scheme : Schemes, host : SeqsUpTo(Labels, MaxLabels), path : {"x"}]

\* the targets of the feed lists
UrlA    == [scheme |-> "https", host |-> <<"feeds", "example", "com">>,
            path |-> "a.xml"]
UrlLoop == [scheme |-> "http", host |-> <<"127", "0", "0", "1">>,
            path |-> "x"]
UrlB    == [scheme |-> "https", host |-> <<"feeds", "example", "com">>,
            path |-> "b.xml"]
FeedTargets == {UrlA, UrlLoop, UrlB}

NoUrl == [scheme |-> "", host |-> <<>>, path |-> ""]

(***************************************************************************)
(* fetch_single_rss_feed: the entry a task returns.                        *)
(***************************************************************************)
Outcomes == {"ok", "malformed", "status_error", "timeout"}

UnsafeMsg == "Invalid or unsafe URL"

NoResult == [url |-> NoUrl, kind |-> "none", detail |-> ""]

\* a faulty variant of GateRejects: the request is issued whatever validate_url says
GateRejects_never(u) == FALSE

\* "if not validate_url(feed_url): return {... error ...}" before session.get
GateRejects(u) == ~validate_url(u)

UnsafeEntry(u) == [url |-> u, kind |-> "error", detail |-> UnsafeMsg]

\* What the task returns once its request has completed with outcome o.
\* session.get raising (timeout, transport error) and raise_for_status
\* raising are caught by "except Exception" and become an error entry.
\* feedparser.parse does not raise on a payload that is not a feed: it
\* returns a feed without title and entries, so the task returns a data
\* entry with total_entries 0.
ResponseEntry(u, o) ==
    CASE o = "ok"           -> [url |-> u, kind |-> "data", detail |-> "feed"]
      [] o = "malformed"    -> [url |-> u, kind |-> "data", detail |-> "empty"]
      [] o = "status_error" -> [url |-> u, kind |-> "error",
                                detail |-> "HTTPStatusError"]
      [] o = "timeout"      -> [url |-> u, kind |-> "error",
                                detail |-> "ReadTimeout"]

(***************************************************************************)
(* asyncio.Semaphore and asyncio.gather as fetch_feeds_concurrent uses     *)
(* them.                                                                   *)
(***************************************************************************)
\* a faulty variant of locked: a full semaphore with nobody waiting is entered
locked_offByOne(v, w) == v < 0 \/ w # <<>>

\* Semaphore.locked(): no free slot, or a waiter is queued
locked(v, w) == v = 0 \/ w # <<>>

\* the waiters whose future is not done yet, in queue order
Pending(w, pc) == SelectSeq(w, LAMBDA t : pc[t] = "waiting")

\* a faulty variant of NextWaiter: the most recent waiter is woken
NextWaiter_last(w, pc) == Pending(w, pc)[Len(Pending(w, pc))]

\* Semaphore._wake_up_next: "for fut in self._waiters: if not fut.done()",
\* the first waiter that has not been woken yet
NextWaiter(w, pc) == Head(Pending(w, pc))

\* a faulty variant of gather_results: results in completion order
gather_results_completion(res, order) ==
    [k \in 1..Len(order) |-> res[order[k]]]

\* asyncio.gather(*tasks, return_exceptions=True): one result per task, in
\* the order of the tasks
gather_results(res, order) == [k \in DOMAIN res |-> res[k]]

\* "if isinstance(result, Exception): {"error": str(result)} else result"
Processed(r) ==
    IF r.kind = "raised"
    THEN [url |-> NoUrl, kind |-> "error", detail |-> r.detail]
    ELSE r

\* a faulty variant of GatherComplete: the join returns with the first finished task
GatherComplete_first(pc) == \E i \in DOMAIN pc : pc[i] = "done"

\* "results = await asyncio.gather(...)" resumes when every task is done
GatherComplete(pc) == \A i \in DOMAIN pc : pc[i] = "done"

NotReturned == [feeds |-> <<>>, total_feeds |-> -1]

Tasks == 1..Len(feed_urls)

\* The part of the state that a step of a task changes, as one record:
\* v, w the semaphore's counter and waiters, pc the tasks' positions, rdy the
\* ready queue, adm the admission log, req the request log, res the tasks'
\* results, fin the completion log.
Now ==
    [v |-> sem_value, w |-> sem_waiters, pc |-> fpc, rdy |-> ready,
     adm |-> admitted, req |-> requests, res |-> taskResult,
     fin |-> doneOrder]

Becomes(S) ==
    /\ sem_value' = S.v
    /\ sem_waiters' = S.w
    /\ fpc' = S.pc
    /\ ready' = S.rdy
    /\ admitted' = S.adm
    /\ requests' = S.req
    /\ taskResult' = S.res
    /\ doneOrder' = S.fin

\* Semaphore._wake_up_next: the slot is taken on behalf of the woken waiter
\* (fut.set_result schedules its task on the event loop)
WakeUpNext(S) ==
    IF Pending(S.w, S.pc) = <<>> THEN S
    ELSE LET t == NextWaiter(S.w, S.pc) IN
         [S EXCEPT !.v = @ - 1, !.pc[t] = "woken",
                   !.rdy = Append(@, t), !.adm = Append(@, t)]

\* a faulty variant of Release: the slot is not given back
Release_leak(S) == S

\* Semaphore.release
Release(S) == WakeUpNext([S EXCEPT !.v = @ + 1])

\* task i returns entry r and leaves "async with semaphore"
Leave(i, r, S) ==
    Release([S EXCEPT !.res[i] = r, !.pc[i] = "done", !.fin = Append(@, i)])

\* Task i runs fetch_single_rss_feed up to its first await, holding a slot.
Enter(i, S) ==
    IF GateRejects(feed_urls[i])
    THEN Leave(i, UnsafeEntry(feed_urls[i]), S)
    ELSE [S EXCEPT !.req = Append(@, feed_urls[i]), !.pc[i] = "inflight"]

\* Semaphore.acquire, first part: the slot is taken at once, or the task
\* queues up and suspends
Acquire(i, S) ==
    IF locked(S.v, S.w)
    THEN [S EXCEPT !.w = Append(@, i), !.pc[i] = "waiting"]
    ELSE Enter(i, [S EXCEPT !.v = @ - 1, !.adm = Append(@, i)])

\* Semaphore.acquire, after "await fut": the waiter leaves the queue and,
\* if a slot is free, passes the wake-up on
Resumed(i, S) ==
    LET T == [S EXCEPT !.w = SelectSeq(@, LAMBDA t : t # i)]
    IN  IF T.v > 0 THEN WakeUpNext(T) ELSE T

\* fetch_feeds_concurrent is called: the semaphore is created and gather
\* schedules one task per feed URL, in input order.
FetchCall ==
    /\ fstage = "idle"
    /\ fstage' = "gathering"
    /\ sem_value' = max_concurrent
    /\ ready' = [i \in Tasks |-> i]
    /\ UNCHANGED <<feed_urls, max_concurrent, fpc, sem_waiters, response,
                   taskResult, requests, admitted, doneOrder, aggregate>>
    /\ UNCHANGED <<urlVars, chatVars, eventVars, configVars>>

\* The event loop steps a task for the first time: "async with semaphore".
TaskStart(i) ==
    /\ fstage = "gathering"
    /\ ready # <<>> /\ Head(ready) = i
    /\ fpc[i] = "new"
    /\ Becomes(Acquire(i, [Now EXCEPT !.rdy = Tail(@)]))
    /\ UNCHANGED <<feed_urls, max_concurrent, fstage, response, aggregate>>
    /\ UNCHANGED <<urlVars, chatVars, eventVars, configVars>>

\* The event loop steps a task that release() has woken.
TaskResume(i) ==
    /\ fstage = "gathering"
    /\ ready # <<>> /\ Head(ready) = i
    /\ fpc[i] = "woken"
    /\ Becomes(Enter(i, Resumed(i, [Now EXCEPT !.rdy = Tail(@)])))
    /\ UNCHANGED <<feed_urls, max_concurrent, fstage, response, aggregate>>
    /\ UNCHANGED <<urlVars, chatVars, eventVars, configVars>>

\* The transport completes the request of task i with outcome o.
Respond(i, o) ==
    /\ fstage = "gathering"
    /\ fpc[i] = "inflight"
    /\ response' = [response EXCEPT ![i] = o]
    /\ fpc' = [fpc EXCEPT ![i] = "responded"]
    /\ ready' = Append(ready, i)
    /\ UNCHANGED <<feed_urls, max_concurrent, fstage, sem_value, sem_waiters,
                   taskResult, requests, admitted, doneOrder, aggregate>>
    /\ UNCHANGED <<urlVars, chatVars, eventVars, configVars>>

\* The event loop steps a task whose request has completed.
TaskFinish(i) ==
    /\ fstage = "gathering"
    /\ ready # <<>> /\ Head(ready) = i
    /\ fpc[i] = "responded"
    /\ Becomes(Leave(i, ResponseEntry(feed_urls[i], response[i]),
                     [Now EXCEPT !.rdy = Tail(@)]))
    /\ UNCHANGED <<feed_urls, max_concurrent, fstage, response, aggregate>>
    /\ UNCHANGED <<urlVars, chatVars, eventVars, configVars>>

\* gather completes and fetch_feeds_concurrent returns the aggregate.
FetchReturn ==
    /\ fstage = "gathering"
    /\ GatherComplete(fpc)
    /\ LET processed_results ==
               [k \in 1..Len(gather_results(taskResult, doneOrder)) |->
                   Processed(gather_results(taskResult, doneOrder)[k])]
       IN  aggregate' = [feeds |-> processed_results,
                         total_feeds |-> Len(processed_results)]
    /\ fstage' = "returned"
    /\ UNCHANGED <<feed_urls, max_concurrent, fpc, sem_value, sem_waiters,
                   ready, response, taskResult, requests, admitted,
                   doneOrder>>
    /\ UNCHANGED <<urlVars, chatVars, eventVars, configVars>>

(***************************************************************************)
(* The model's reply as text.  A text is a sequence of tokens: the braces  *)
(* and the comma, a prose word "w", white space "_", complete members      *)
(* "key:value" with a string value, the key "arguments:" that awaits its   *)
(* value, and "'abc", a string that is never closed.                       *)
(***************************************************************************)
ToolTokens == {"tool:search_news", "tool:get_top_headlines",
               "tool:search_web", "tool:parse_rss_feed", "tool:add_event",
               "tool:get_events", "tool:delete_event", "tool:update_config",
               "tool:bogus"}

ArgTokens == {"query:x", "url:u", "title:t", "date:d", "event_id:e1",
              "setting:s", "value:v"}

PairTokens == {"action:use_tool", "action:other", "content:hi"}
                  \cup ToolTokens \cup ArgTokens

KeyOf(t) ==
    CASE t \in {"action:use_tool", "action:other"} -> "action"
      [] t \in ToolTokens -> "tool"
      [] t = "content:hi" -> "content"
      [] t = "query:x" -> "query"
      [] t = "url:u" -> "url"
      [] t = "title:t" -> "title"
      [] t = "date:d" -> "date"
      [] t = "event_id:e1" -> "event_id"
      [] t = "setting:s" -> "setting"
      [] t = "value:v" -> "value"

ValOf(t) ==
    CASE t = "action:use_tool" -> "use_tool"
      [] t = "action:other" -> "other"
      [] t = "tool:search_news" -> "search_news"
      [] t = "tool:get_top_headlines" -> "get_top_headlines"
      [] t = "tool:search_web" -> "search_web"
      [] t = "tool:parse_rss_feed" -> "parse_rss_feed"
      [] t = "tool:add_event" -> "add_event"
      [] t = "tool:get_events" -> "get_events"
      [] t = "tool:delete_event" -> "delete_event"
      [] t = "tool:update_config" -> "update_config"
      [] t = "tool:bogus" -> "bogus"
      [] t = "content:hi" -> "hi"
      [] t = "query:x" -> "x"
      [] t = "url:u" -> "u"
      [] t = "title:t" -> "t"
      [] t = "date:d" -> "d"
      [] t = "event_id:e1" -> "e1"
      [] t = "setting:s" -> "s"
      [] t = "value:v" -> "v"

\* JSON values: a string, or an object as the set of its members [k, v]
StrV(x) == [ty |-> "str", s |-> x, o |-> {}]
ObjV(d) == [ty |-> "obj", s |-> "", o |-> d]
NoneV == [ty |-> "none", s |-> "", o |-> {}]

Has(d, k) == \E m \in d : m.k = k
Get(d, k) == (CHOOSE m \in d : m.k = k).v
\* dict.get(k, default)
GetOr(d, k, default) == IF Has(d, k) THEN Get(d, k) ELSE default
\* a later member replaces an earlier one of the same key
Put(d, k, v) == {m \in d : m.k # k} \cup {[k |-> k, v |-> v]}

ParseFail == [ok |-> FALSE, next |-> 0, val |-> {}]

RECURSIVE ParseObj(_, _), ParseMembers(_, _, _), AfterMember(_, _, _)

\* the JSON object that starts at s[i]
ParseObj(s, i) ==
    IF i > Len(s) \/ s[i] # "{" THEN ParseFail
    ELSE IF i + 1 <= Len(s) /\ s[i + 1] = "}"
         THEN [ok |-> TRUE, next |-> i + 2, val |-> {}]
    ELSE ParseMembers(s, i + 1, {})

\* a member is expected at s[i]
ParseMembers(s, i, d) ==
    IF i > Len(s) THEN ParseFail
    ELSE IF s[i] \in PairTokens
         THEN AfterMember(s, i + 1, Put(d, KeyOf(s[i]), StrV(ValOf(s[i]))))
    ELSE IF s[i] = "arguments:"
         THEN LET r == ParseObj(s, i + 1) IN
              IF r.ok
              THEN AfterMember(s, r.next, Put(d, "arguments", ObjV(r.val)))
              ELSE ParseFail
    ELSE ParseFail

\* a comma or the closing brace is expected at s[i]
AfterMember(s, i, d) ==
    IF i > Len(s) THEN ParseFail
    ELSE IF s[i] = "}" THEN [ok |-> TRUE, next |-> i + 1, val |-> d]
    ELSE IF s[i] = "," THEN ParseMembers(s, i + 1, d)
    ELSE ParseFail

\* json.loads: the whole text is one JSON value (white space is skipped);
\* ok = FALSE is json.JSONDecodeError
json_loads(text) ==
    LET t == SelectSeq(text, LAMBDA x : x # "_")
        r == ParseObj(t, 1)
    IN  IF r.ok /\ r.next = Len(t) + 1
        THEN [ok |-> TRUE, val |-> ObjV(r.val)]
        ELSE [ok |-> FALSE, val |-> NoneV]

\* str.strip()
RECURSIVE Strip(_)
Strip(text) ==
    IF text = <<>> THEN text
    ELSE IF Head(text) = "_" THEN Strip(Tail(text))
    ELSE IF text[Len(text)] = "_" THEN Strip(SubSeq(text, 1, Len(text) - 1))
    ELSE text

Positions(text, tok) == {i \in 1..Len(text) : text[i] = tok}
Min(S) == CHOOSE x \in S : \A y \in S : x <= y
Max(S) == CHOOSE x \in S : \A y \in S : x >= y

\* re.search(r'(\{.*\})', text, re.DOTALL): from the first "{" that has a
\* "}" after it to the last "}" of the text; <<>> when there is no match
RegexMatch(text) ==
    IF Positions(text, "{") # {} /\ Positions(text, "}") # {}
       /\ Min(Positions(text, "{")) < Max(Positions(text, "}"))
    THEN SubSeq(text, Min(Positions(text, "{")), Max(Positions(text, "}")))
    ELSE <<>>

\* extract_json_from_text: NoneV is None (no match, or json.loads raised)
extract_json_from_text(text) ==
    IF RegexMatch(text) = <<>> THEN NoneV
    ELSE IF json_loads(RegexMatch(text)).ok
         THEN json_loads(RegexMatch(text)).val
    ELSE NoneV

(***************************************************************************)
(* LLMClient.generate_response, from the model's raw reply on.             *)
(***************************************************************************)
LLMErrorText == <<"w">>

\* raw: the reply of the model; llm_ok = FALSE: the completion request raised
generate_response(raw, llm_ok) ==
    IF ~llm_ok
    THEN [type |-> "text", content |-> LLMErrorText, tool |-> NoneV,
          arguments |-> NoneV]
    ELSE LET parsed == json_loads(Strip(raw)) IN
         IF parsed.ok /\ parsed.val.ty = "obj"
            /\ GetOr(parsed.val.o, "action", NoneV) = StrV("use_tool")
         THEN [type |-> "tool_call", content |-> <<>>,
               tool |-> GetOr(parsed.val.o, "tool", NoneV),
               arguments |-> GetOr(parsed.val.o, "arguments", ObjV({}))]
         ELSE [type |-> "text", content |-> Strip(raw), tool |-> NoneV,
               arguments |-> NoneV]

(***************************************************************************)
(* MCPClient                                                               *)
(***************************************************************************)
AllTools == {"search_news", "get_top_headlines", "search_web",
             "parse_rss_feed", "add_event", "get_events", "delete_event",
             "update_config"}

\* MCPClient.list_tools: one GET /resources; a failure is caught and gives []
list_tools(resources_ok) == IF resources_ok THEN AllTools ELSE {}

\* the request call_tool issues for a tool of the catalog
Endpoint(tool) ==
    CASE tool = "search_news" -> "GET /news/search"
      [] tool = "get_top_headlines" -> "GET /news/headlines"
      [] tool = "search_web" -> "GET /web/search"
      [] tool = "parse_rss_feed" -> "GET /rss/parse"
      [] tool = "add_event" -> "POST /events"
      [] tool = "get_events" -> "GET /events"
      [] tool = "delete_event" -> "DELETE /events/{event_id}"
      [] tool = "update_config" -> "POST /config"

\* the parameters the backend's route of a tool declares without a default
\* (Query(...), a path parameter, a required field of the body's model)
RequiredArgs(tool) ==
    CASE tool \in {"search_news", "search_web"} -> {"query"}
      [] tool = "parse_rss_feed" -> {"url"}
      [] tool = "add_event" -> {"title", "date"}
      [] tool = "delete_event" -> {"event_id"}
      [] tool = "update_config" -> {"setting", "value"}
      [] OTHER -> {}

\* what becomes of a tool's request: an answer of the backend, or one of
\* the exceptions of httpx (no connection, a timeout, and the non-success
\* status that raise_for_status raises)
BackendOutcomes == {"ok", "ConnectError", "ReadTimeout", "HTTPStatusError"}

\* the exception of a tool's request, "none" if there is none: the backend
\* answers a request that lacks a required parameter with status 422
RequestError(tool, arguments, backend) ==
    IF backend # "ok" THEN backend
    ELSE IF \E k \in RequiredArgs(tool) : ~Has(arguments.o, k)
    THEN "HTTPStatusError"
    ELSE "none"

\* a faulty variant of Caught: the exception of the request leaves call_tool
Caught_reraised(e) == [kind |-> "raised", msg |-> <<e>>]

\* "except Exception as e: return {"error": str(e)}"
Caught(e) == [kind |-> "error", msg |-> <<e>>]

\* MCPClient.call_tool(tool_name, arguments) with the client in state
\* (conn, tools).  resources_ok: whether the GET /resources of connect()
\* succeeds; backend: what becomes of the tool's own request.  The result is
\* the returned value (kind "ok" is resp.json(), kind "error" is
\* {"error": msg}), the requests issued, what became of the tool's request
\* and the client's state afterwards.
call_tool(tool_name, arguments, conn, tools, resources_ok, backend) ==
    LET pre == IF conn THEN <<>> ELSE <<"GET /resources">>
        tools2 == IF conn THEN tools ELSE list_tools(resources_ok)
        out(result, reqs, request) ==
            [result |-> result, remote |-> pre \o reqs, backend |-> request,
             connected |-> TRUE, available_tools |-> tools2]
    IN  IF tool_name.ty = "str" /\ tool_name.s = "delete_event"
           /\ ~Has(arguments.o, "event_id")
        THEN out([kind |-> "error", msg |-> <<"event_id is required">>],
                 <<>>, "none")
        ELSE IF tool_name.ty = "str" /\ tool_name.s \in AllTools
        THEN LET e == RequestError(tool_name.s, arguments, backend) IN
             IF e = "none"
             THEN out([kind |-> "ok", msg |-> <<>>],
                      <<Endpoint(tool_name.s)>>, "ok")
             ELSE out(Caught(e), <<Endpoint(tool_name.s)>>, e)
        ELSE out([kind |-> "error", msg |-> <<"Unknown tool", tool_name.s>>],
                 <<>>, "none")

(***************************************************************************)
(* The chat session: start, main (with handle_tool_call) and stop.         *)
(***************************************************************************)
MaxTurns == 2       \* user messages per session

NoTurn == [kind |-> "none", tool |-> NoneV, arguments |-> NoneV,
           text |-> <<>>, fault |-> "", result |-> "none", backend |-> "none"]

UserMessage == [role |-> "user", kind |-> "text", text |-> <<"u">>,
                tool |-> NoneV, arguments |-> NoneV]

AssistantText(t) == [role |-> "assistant", kind |-> "text", text |-> t,
                     tool |-> NoneV, arguments |-> NoneV]

\* "I used {tool_name} with arguments {arguments} and got results."
AssistantSummary(tool, args) ==
    [role |-> "assistant", kind |-> "summary", text |-> <<>>,
     tool |-> tool, arguments |-> args]

Shown(kind, t) == [kind |-> kind, text |-> t]

\* what handle_tool_call sends for the result of a tool
Display(tool_name, result) ==
    LET item == IF result.kind = "error" THEN Shown("error", result.msg)
                ELSE Shown("result", <<>>)
    IN  IF tool_name.s \in {"search_news", "get_top_headlines"}
        THEN <<Shown("debug", <<>>), item>>
        ELSE IF tool_name.s \in {"search_web", "parse_rss_feed", "get_events",
                                 "add_event", "delete_event"}
        THEN <<item>>
        ELSE <<Shown("json", result.msg)>>

\* a faulty variant of AfterUser: a new list that holds the message only
AfterUser_fresh(msgs) == <<UserMessage>>

\* messages.append({"role": "user", "content": message.content})
AfterUser(msgs) == Append(msgs, UserMessage)

\* a faulty variant of AfterText: the content is appended twice
AfterText_twice(msgs, t) ==
    Append(Append(msgs, AssistantText(t)), AssistantText(t))

\* messages.append({"role": "assistant", "content": response["content"]})
AfterText(msgs, t) == Append(msgs, AssistantText(t))

\* a faulty variant of AfterCall: no summary of a call that failed
AfterCall_onlyOnSuccess(msgs, tool_name, arguments, result) ==
    IF result.kind # "ok" THEN msgs
    ELSE Append(msgs, AssistantSummary(tool_name, arguments))

\* on_chat_start: the session's messages are reset; if the language model
\* answers, the shared client connects (one GET /resources)
start(llm_connected, resources_ok) ==
    /\ session \in {"none", "stopped"}
    /\ session' = "active"
    /\ messages' = <<>>
    /\ IF llm_connected
       THEN /\ connected' = TRUE
            /\ available_tools' = list_tools(resources_ok)
            /\ remote' = <<"GET /resources">>
       ELSE /\ UNCHANGED <<connected, available_tools>>
            /\ remote' = <<>>
    /\ content' = <<>>
    /\ turn' = NoTurn
    /\ presented' = <<Shown("status", <<>>)>>
    /\ UNCHANGED <<peer, urlVars, fetchVars, eventVars, configVars>>

\* on_message up to "await llm_client.generate_response": the user message
\* is appended to the session's list and the model is asked
on_message ==
    /\ session = "active"
    /\ Len(SelectSeq(messages, LAMBDA m : m.role = "user")) < MaxTurns
    /\ session' = "awaiting"
    /\ messages' = AfterUser(messages)
    /\ content' = <<>>
    /\ turn' = NoTurn
    /\ presented' = <<>>
    /\ remote' = <<>>
    /\ UNCHANGED <<connected, available_tools>>
    /\ UNCHANGED <<peer, urlVars, fetchVars, eventVars, configVars>>

\* the handler raises: nothing more is appended, sent or requested
Faults(why) ==
    /\ turn' = [NoTurn EXCEPT !.kind = "fault", !.fault = why]
    /\ UNCHANGED <<messages, presented, remote, connected, available_tools>>

\* a faulty variant of AfterCall: an error result empties the list
AfterCall_dropped(msgs, tool_name, arguments, result) ==
    IF result.kind # "ok" THEN <<>>
    ELSE Append(msgs, AssistantSummary(tool_name, arguments))

\* the session's messages after handle_tool_call: the summary is appended
\* unless the call raised
AfterCall(msgs, tool_name, arguments, result) ==
    IF result.kind = "raised" THEN msgs
    ELSE Append(msgs, AssistantSummary(tool_name, arguments))

\* handle_tool_call(tool_name, arguments, messages): the call, the display of
\* its result and the summary appended to the messages; an exception of the
\* call is caught, shown as an error, and nothing is appended
handle_tool_call(tool_name, arguments, resources_ok, backend) ==
    LET call == call_tool(tool_name, arguments, connected, available_tools,
                          resources_ok, backend)
    IN  /\ connected' = call.connected
        /\ available_tools' = call.available_tools
        /\ remote' = call.remote
        /\ turn' = [NoTurn EXCEPT !.kind = "tool", !.tool = tool_name,
                                  !.arguments = arguments,
                                  !.result = call.result.kind,
                                  !.backend = call.backend]
        /\ presented' = IF call.result.kind = "raised"
                        THEN <<Shown("error", call.result.msg)>>
                        ELSE Display(tool_name, call.result)
        /\ messages' = AfterCall(messages, tool_name, arguments, call.result)

\* on_message from the model's reply on (generate_response, then the
\* parsing and the dispatch of main, handle_tool_call included).
\* raw: the reply of the model; llm_ok = FALSE: the completion request raised
main(raw, llm_ok, resources_ok, backend) ==
    /\ session = "awaiting"
    /\ session' = "active"
    /\ content' = IF llm_ok THEN raw ELSE LLMErrorText
    /\ LET reply == generate_response(raw, llm_ok)
           parsed == extract_json_from_text(reply.content)
       IN  IF reply.type # "text"
           THEN Faults("KeyError: content")
           ELSE IF parsed.ty = "none"
           THEN Faults("TypeError: NoneType")
           ELSE IF ~Has(parsed.o, "action")
           THEN Faults("KeyError: action")
           ELSE IF Get(parsed.o, "action") = StrV("use_tool")
           THEN IF ~Has(parsed.o, "tool")
                THEN Faults("KeyError: tool")
                ELSE IF ~Has(parsed.o, "arguments")
                THEN Faults("KeyError: arguments")
                ELSE handle_tool_call(Get(parsed.o, "tool"),
                                      Get(parsed.o, "arguments"),
                                      resources_ok, backend)
           ELSE IF ~Has(parsed.o, "content")
           THEN Faults("KeyError: content")
           ELSE LET t == <<Get(parsed.o, "content").s>> IN
                /\ presented' = <<Shown("text", t)>>
                /\ messages' = AfterText(messages, t)
                /\ turn' = [NoTurn EXCEPT !.kind = "text", !.text = t]
                /\ remote' = <<>>
                /\ UNCHANGED <<connected, available_tools>>
    /\ UNCHANGED <<peer, urlVars, fetchVars, eventVars, configVars>>

\* on_stop: the shared client is marked disconnected
stop ==
    /\ session = "active"
    /\ session' = "stopped"
    /\ connected' = FALSE
    /\ UNCHANGED <<messages, available_tools, content, turn, presented,
                   remote>>
    /\ UNCHANGED <<peer, urlVars, fetchVars, eventVars, configVars>>

(***************************************************************************)
(* A second chat session of the same process.  Its messages are its own    *)
(* (cl.user_session); its handlers act on the one module-level mcp_client, *)
(* and that is all of them that is kept here.                              *)
(***************************************************************************)
sessionLocal == <<session, messages, content, turn, presented, remote>>

\* on_chat_start of the second session
peer_start(llm_connected, resources_ok) ==
    /\ peer \in {"none", "stopped"}
    /\ peer' = "active"
    /\ IF llm_connected
       THEN /\ connected' = TRUE
            /\ available_tools' = list_tools(resources_ok)
       ELSE UNCHANGED <<connected, available_tools>>
    /\ UNCHANGED <<sessionLocal, urlVars, fetchVars, eventVars, configVars>>

\* on_message of the second session up to the request to the model
peer_on_message ==
    /\ peer = "active"
    /\ peer' = "awaiting"
    /\ UNCHANGED <<connected, available_tools>>
    /\ UNCHANGED <<sessionLocal, urlVars, fetchVars, eventVars, configVars>>

\* on_message of the second session from the model's reply on; calls_tool:
\* the turn reaches call_tool, which connects a client that is not connected
peer_main(calls_tool, resources_ok) ==
    /\ peer = "awaiting"
    /\ peer' = "active"
    /\ IF calls_tool /\ ~connected
       THEN /\ connected' = TRUE
            /\ available_tools' = list_tools(resources_ok)
       ELSE UNCHANGED <<connected, available_tools>>
    /\ UNCHANGED <<sessionLocal, urlVars, fetchVars, eventVars, configVars>>

\* on_stop of the second session
peer_stop ==
    /\ peer = "active"
    /\ peer' = "stopped"
    /\ connected' = FALSE
    /\ UNCHANGED available_tools
    /\ UNCHANGED <<sessionLocal, urlVars, fetchVars, eventVars, configVars>>

(***************************************************************************)
(* The replies the model gives: a JSON core between two pieces of prose.   *)
(***************************************************************************)
ToolObject(tool, args) ==
    <<"{", "action:use_tool", ",", tool, ",", "arguments:", "{">> \o args
        \o <<"}", "}">>

WellFormedCores ==
    {ToolObject("tool:search_news", <<"query:x">>),
     ToolObject("tool:delete_event", <<>>),
     ToolObject("tool:bogus", <<"query:x">>)}

MalformedCores ==
    {\* a trailing comma
     <<"{", "action:use_tool", ",", "tool:search_news", ",", "arguments:",
       "{", "query:x", "}", ",", "}">>,
     \* a string that is never closed
     <<"{", "action:use_tool", ",", "tool:search_news", ",", "'abc", "}">>}

OtherCores ==
    {<<>>,
     <<"{", "tool:search_news", "}">>,
     <<"{", "action:other", ",", "content:hi", "}">>,
     <<"{", "action:other", ",", "tool:search_news", "}">>,
     <<"{", "action:use_tool", ",", "tool:search_news", "}">>,
     <<"{", "action:use_tool", ",", "arguments:", "{", "}", "}">>}

ProseWithoutBraces == {<<>>, <<"w">>, <<"_">>, <<"w", "_">>, <<"_", "w">>}

Prose ==
    ProseWithoutBraces
        \cup {<<"w", "{", "w", "}">>, <<"{", "query:x", "}", "w">>}

\* a call of every tool of the catalog with its required arguments, and with
\* each of them left out
CatalogCores ==
    {ToolObject("tool:search_news", <<"query:x">>),
     ToolObject("tool:search_news", <<>>),
     ToolObject("tool:get_top_headlines", <<>>),
     ToolObject("tool:search_web", <<"query:x">>),
     ToolObject("tool:search_web", <<>>),
     ToolObject("tool:parse_rss_feed", <<"url:u">>),
     ToolObject("tool:parse_rss_feed", <<>>),
     ToolObject("tool:add_event", <<"title:t", ",", "date:d">>),
     ToolObject("tool:add_event", <<"title:t">>),
     ToolObject("tool:add_event", <<"date:d">>),
     ToolObject("tool:get_events", <<>>),
     ToolObject("tool:delete_event", <<"event_id:e1">>),
     ToolObject("tool:delete_event", <<>>),
     ToolObject("tool:update_config", <<"setting:s", ",", "value:v">>),
     ToolObject("tool:update_config", <<"setting:s">>),
     ToolObject("tool:update_config", <<"value:v">>)}

Replies ==
    {pre \o core \o post :
        pre \in Prose, post \in Prose,
        core \in WellFormedCores \cup MalformedCores \cup OtherCores}

\* the replies that call a tool: every call of CatalogCores, a tool outside
\* the catalog, after a word of prose; and a reply that is prose only
DispatchReplies ==
    {<<"w", "_">> \o core :
        core \in CatalogCores
                  \cup {ToolObject("tool:bogus", <<"query:x">>)}}
      \cup {<<"w">>}

(***************************************************************************)
(* The event store of the backend: the module-level list "events" and the  *)
(* handlers of /events (main_mcp.py; mcp_server.py has the same three).    *)
(* A date and a time are the strings the client sent.                      *)
(***************************************************************************)
MaxEvents == 2      \* events stored at a time
MaxClock == 1       \* seconds that pass

\* what datetime.now() gives
Today == "2025-06-01"

\* the dates strptime(v, "%Y-%m-%d") accepts, and one it rejects
Dates == {"2025-06-01", "2025-06-09"}
DateInputs == Dates \cup {"2025-02-30"}
NoDate == ""

\* the times strptime(v, "%H:%M") accepts (%H takes one digit or two), and
\* one it rejects
Times == {"9:30", "10:00"}
TimeInputs == Times \cup {"24:00"}

\* the time of day a time string stands for, in minutes
Minutes(t) == CASE t = "9:30" -> 570 [] t = "10:00" -> 600

\* the place of a string in the order of str.__lt__ (by code point, so
\* "10:00" < "9:30"), among the strings above
LexRank(x) ==
    CASE x = "10:00" -> 1
      [] x = "9:30" -> 2
      [] x = "2025-06-01" -> 1
      [] x = "2025-06-09" -> 2

\* "start_date <= event["date"] <= end_date" with days_ahead = 7
InWindow(date) == date = "2025-06-01"

\* key=lambda x: (x["date"], x.get("time", "00:00")), compared as tuples
KeyLeq(a, b) ==
    \/ LexRank(a.date) < LexRank(b.date)
    \/ LexRank(a.date) = LexRank(b.date) /\ LexRank(a.time) <= LexRank(b.time)

\* e put into the sorted list after the entries whose key is not greater
InsertSorted(sorted, e) ==
    LET n == Cardinality({i \in DOMAIN sorted : KeyLeq(sorted[i], e)})
    IN  SubSeq(sorted, 1, n) \o <<e>> \o SubSeq(sorted, n + 1, Len(sorted))

RECURSIVE Sorted(_)
\* list.sort(key): ascending by key, entries of equal key in their order
Sorted(evs) ==
    IF evs = <<>> THEN <<>>
    ELSE InsertSorted(Sorted(SubSeq(evs, 1, Len(evs) - 1)), evs[Len(evs)])

\* a faulty variant of FirstIndex: without a match, the last position
FirstIndex_orLast(evs, event_id) ==
    IF \E i \in DOMAIN evs : evs[i].id = event_id
    THEN Min({i \in DOMAIN evs : evs[i].id = event_id})
    ELSE Len(evs)

\* "for i, event in enumerate(events): if event["id"] == event_id": the
\* first position that matches, 0 if the loop ends without one
FirstIndex(evs, event_id) ==
    IF \E i \in DOMAIN evs : evs[i].id = event_id
    THEN Min({i \in DOMAIN evs : evs[i].id = event_id})
    ELSE 0

NoId == <<0, 0>>
NoAnswer == [op |-> "none", status |-> 0, date |-> NoDate, id |-> NoId,
             events |-> <<>>]

\* the ids a request can name: those add_event can give, and one it cannot
EventIds == ((1..MaxEvents) \X (0..MaxClock)) \cup {NoId}

\* POST /events: the body is validated by EventCreate (422 if the date or
\* the time does not parse), the event gets the id
\* f"event_{len(events) + 1}_{int(datetime.now().timestamp())}" and is
\* appended
add_event(date, time) ==
    /\ IF date \in Dates /\ time \in Times
       THEN /\ Len(events) < MaxEvents
            /\ LET new_event == [id |-> <<Len(events) + 1, clock>>,
                                 date |-> date, time |-> time]
               IN  /\ events' = Append(events, new_event)
                   /\ answer' = [NoAnswer EXCEPT
                                    !.op = "add", !.status = 200,
                                    !.date = date, !.id = new_event.id,
                                    !.events = <<new_event>>]
       ELSE /\ answer' = [NoAnswer EXCEPT !.op = "add", !.status = 422,
                                          !.date = date]
            /\ UNCHANGED events
    /\ UNCHANGED clock
    /\ UNCHANGED <<urlVars, fetchVars, chatVars, configVars>>

\* GET /events: the events of the given date, or without a date those of
\* today and the seven days ahead, sorted by (date, time)
get_events(date) ==
    /\ IF date # NoDate /\ date \notin Dates
       THEN answer' = [NoAnswer EXCEPT !.op = "get", !.status = 400,
                                      !.date = date]
       ELSE LET keep(event) == IF date # NoDate THEN event.date = date
                               ELSE InWindow(event.date)
                filtered_events == Sorted(SelectSeq(events, keep))
            IN  answer' = [NoAnswer EXCEPT
                             !.op = "get", !.status = 200, !.date = date,
                             !.events = filtered_events]
    /\ UNCHANGED <<events, clock>>
    /\ UNCHANGED <<urlVars, fetchVars, chatVars, configVars>>

\* DELETE /events/{event_id}: the first event of that id is popped, and 404
\* "Event not found" if there is none
delete_event(event_id) ==
    /\ LET i == FirstIndex(events, event_id) IN
       IF i > 0
       THEN /\ events' = SubSeq(events, 1, i - 1)
                             \o SubSeq(events, i + 1, Len(events))
            /\ answer' = [NoAnswer EXCEPT
                             !.op = "delete", !.status = 200,
                             !.id = event_id, !.events = <<events[i]>>]
       ELSE /\ answer' = [NoAnswer EXCEPT !.op = "delete", !.status = 404,
                                          !.id = event_id]
            /\ UNCHANGED events
    /\ UNCHANGED clock
    /\ UNCHANGED <<urlVars, fetchVars, chatVars, configVars>>

\* a second passes
Tick ==
    /\ clock < MaxClock
    /\ clock' = clock + 1
    /\ UNCHANGED <<events, answer>>
    /\ UNCHANGED <<urlVars, fetchVars, chatVars, configVars>>

(***************************************************************************)
(* The configuration of the backend: the module-level dictionary "config", *)
(* POST /config and the arguments GET /rss/feeds hands to the fetcher.     *)
(* A value arrives as text: the decimal text of an integer, or a word.     *)
(***************************************************************************)
MaxValue == 2       \* the integers a value text stands for: -1..MaxValue

NumText(n) == [kind |-> "int", n |-> n, s |-> ""]
WordText(w) == [kind |-> "word", n |-> 0, s |-> w]

ValueInputs == {NumText(n) : n \in -1..MaxValue} \cup {WordText("abc")}

\* ConfigUpdate.validate_setting: the settings that may be updated
AllowedSettings == {"default_country", "default_language", "max_articles",
                    "api_timeout", "max_concurrent_requests"}

\* the settings requests name: allowed ones, and one that is not
SettingInputs == {"default_country", "max_articles", "api_timeout",
                  "max_concurrent_requests", "default_rss_feeds"}

\* get_default_config() without the list of feeds
DefaultConfig ==
    [setting \in AllowedSettings |->
        CASE setting = "default_country" -> WordText("us")
          [] setting = "default_language" -> WordText("en")
          [] setting = "max_articles" -> 20
          [] setting = "api_timeout" -> 30
          [] setting = "max_concurrent_requests" -> 5]

\* config["default_rss_feeds"]
default_rss_feeds == <<UrlA, UrlB>>

NotUpdated == [status |-> 0, setting |-> ""]

\* int(value) and float(value) return (they raise ValueError otherwise)
Converts(value) == value.kind = "int"

\* POST /config: 422 for a setting that is not allowed, 400 for a numeric
\* setting whose value does not convert, else the value is stored
update_config(setting, value) ==
    /\ IF setting \notin AllowedSettings
       THEN /\ updated' = [status |-> 422, setting |-> setting]
            /\ UNCHANGED config
       ELSE IF setting \in {"max_articles", "max_concurrent_requests",
                            "api_timeout"}
       THEN IF Converts(value)
            THEN /\ config' = [config EXCEPT ![setting] = value.n]
                 /\ updated' = [status |-> 200, setting |-> setting]
            ELSE /\ updated' = [status |-> 400, setting |-> setting]
                 /\ UNCHANGED config
       ELSE /\ config' = [config EXCEPT ![setting] = value]
            /\ updated' = [status |-> 200, setting |-> setting]
    /\ UNCHANGED <<urlVars, fetchVars, chatVars, eventVars>>

\* GET /rss/feeds: fetch_feeds_concurrent is called with the feeds and the
\* max_concurrent_requests of the configuration (the call itself is the
\* machine of SpecFetch)
get_rss_feeds ==
    /\ fstage = "idle"
    /\ feed_urls' = default_rss_feeds
    /\ max_concurrent' = config["max_concurrent_requests"]
    /\ fpc' = [i \in 1..Len(default_rss_feeds) |-> "new"]
    /\ response' = [i \in 1..Len(default_rss_feeds) |-> "none"]
    /\ taskResult' = [i \in 1..Len(default_rss_feeds) |-> NoResult]
    /\ UNCHANGED <<fstage, sem_value, sem_waiters, ready, requests, admitted,
                   doneOrder, aggregate>>
    /\ UNCHANGED <<urlVars, chatVars, eventVars, configVars>>

(***************************************************************************)
(* validate_url applied to one URL.                                        *)
(***************************************************************************)
ValidateUrl ==
    /\ gate = "unchecked"
    /\ gate' = IF validate_url(url) THEN "accepted" ELSE "rejected"
    /\ UNCHANGED url
    /\ UNCHANGED <<fetchVars, chatVars, eventVars, configVars>>

(***************************************************************************)
(* Initial states and specifications.                                      *)
(***************************************************************************)
UrlIdle == url = NoUrl /\ gate = "unchecked"

FetchIdleWith(urls, cap) ==
    /\ feed_urls = urls
    /\ max_concurrent = cap
    /\ fstage = "idle"
    /\ fpc = [i \in 1..Len(urls) |-> "new"]
    /\ sem_value = 0
    /\ sem_waiters = <<>>
    /\ ready = <<>>
    /\ response = [i \in 1..Len(urls) |-> "none"]
    /\ taskResult = [i \in 1..Len(urls) |-> NoResult]
    /\ requests = <<>>
    /\ admitted = <<>>
    /\ doneOrder = <<>>
    /\ aggregate = NotReturned

ChatIdle ==
    /\ session = "none"
    /\ messages = <<>>
    /\ connected = FALSE
    /\ available_tools = {}
    /\ content = <<>>
    /\ turn = NoTurn
    /\ presented = <<>>
    /\ remote = <<>>
    /\ peer = "none"

EventIdle == events = <<>> /\ clock = 0 /\ answer = NoAnswer

ConfigIdle == config = DefaultConfig /\ updated = NotUpdated

InitUrl ==
    /\ url \in UrlInputs
    /\ gate = "unchecked"
    /\ FetchIdleWith(<<>>, 1)
    /\ ChatIdle
    /\ EventIdle
    /\ ConfigIdle

NextUrl == ValidateUrl

SpecUrl == InitUrl /\ [][NextUrl]_vars

InitFetch ==
    /\ UrlIdle
    /\ \E urls \in SeqsUpTo(FeedTargets, MaxFeeds), cap \in 1..MaxCap :
           FetchIdleWith(urls, cap)
    /\ ChatIdle
    /\ EventIdle
    /\ ConfigIdle

NextFetch ==
    \/ FetchCall
    \/ \E i \in Tasks : TaskStart(i)
    \/ \E i \in Tasks : TaskResume(i)
    \/ \E i \in Tasks, o \in Outcomes : Respond(i, o)
    \/ \E i \in Tasks : TaskFinish(i)
    \/ FetchReturn

SpecFetch == InitFetch /\ [][NextFetch]_vars

\* the event loop runs what is ready, and every request that was issued
\* completes (with a response, an error or the timeout of the client)
\* (the feed lists are made of one target that passes validate_url and one
\* that does not)
FairTargets == {UrlA, UrlLoop}

InitFetchFair ==
    /\ UrlIdle
    /\ \E urls \in SeqsUpTo(FairTargets, MaxFeeds), cap \in 1..MaxCap :
           FetchIdleWith(urls, cap)
    /\ ChatIdle
    /\ EventIdle
    /\ ConfigIdle

SpecFetchFair ==
    InitFetchFair /\ [][NextFetch]_vars /\ WF_vars(NextFetch)

InitChat ==
    UrlIdle /\ FetchIdleWith(<<>>, 1) /\ ChatIdle /\ EventIdle /\ ConfigIdle

NextChat ==
    \/ \E llm_connected \in BOOLEAN, resources_ok \in BOOLEAN :
           start(llm_connected, resources_ok)
    \/ on_message
    \/ \E raw \in Replies, llm_ok \in BOOLEAN, resources_ok \in BOOLEAN,
          backend \in BackendOutcomes :
           main(raw, llm_ok, resources_ok, backend)
    \/ stop

SpecChat == InitChat /\ [][NextChat]_vars

\* the same session, with the replies that call tools
NextDispatch ==
    \/ \E llm_connected \in BOOLEAN, resources_ok \in BOOLEAN :
           start(llm_connected, resources_ok)
    \/ on_message
    \/ \E raw \in DispatchReplies, llm_ok \in BOOLEAN,
          resources_ok \in BOOLEAN, backend \in BackendOutcomes :
           main(raw, llm_ok, resources_ok, backend)
    \/ stop

SpecDispatch == InitChat /\ [][NextDispatch]_vars

\* two sessions of one process
SessionReplies ==
    {<<"w">>, <<"w", "_">> \o ToolObject("tool:search_news", <<"query:x">>),
     <<"w", "_">> \o ToolObject("tool:bogus", <<"query:x">>)}

NextSessions ==
    \/ \E llm_connected \in BOOLEAN, resources_ok \in BOOLEAN :
           start(llm_connected, resources_ok)
    \/ on_message
    \/ \E raw \in SessionReplies, llm_ok \in BOOLEAN,
          resources_ok \in BOOLEAN, backend \in BackendOutcomes :
           main(raw, llm_ok, resources_ok, backend)
    \/ stop
    \/ \E llm_connected \in BOOLEAN, resources_ok \in BOOLEAN :
           peer_start(llm_connected, resources_ok)
    \/ peer_on_message
    \/ \E calls_tool \in BOOLEAN, resources_ok \in BOOLEAN :
           peer_main(calls_tool, resources_ok)
    \/ peer_stop

SpecSessions == InitChat /\ [][NextSessions]_vars

InitEvents ==
    UrlIdle /\ FetchIdleWith(<<>>, 1) /\ ChatIdle /\ EventIdle /\ ConfigIdle

NextEvents ==
    \/ \E date \in DateInputs, time \in TimeInputs : add_event(date, time)
    \/ \E date \in DateInputs \cup {NoDate} : get_events(date)
    \/ \E event_id \in EventIds : delete_event(event_id)
    \/ Tick

SpecEvents == InitEvents /\ [][NextEvents]_vars

InitConfig ==
    UrlIdle /\ FetchIdleWith(<<>>, 1) /\ ChatIdle /\ EventIdle /\ ConfigIdle

NextConfig ==
    \/ \E setting \in SettingInputs, value \in ValueInputs :
           update_config(setting, value)
    \/ get_rss_feeds

SpecConfig == InitConfig /\ [][NextConfig]_vars

(***************************************************************************)
(* Properties of fetch_feeds_concurrent (checked under SpecFetch).         *)
(***************************************************************************)
\* the tasks that hold a slot of the semaphore
InFlight == {i \in Tasks : fpc[i] \in {"woken", "inflight", "responded"}}

Returned == fstage = "returned"

\* C1: the returned aggregate has one entry per input URL, the i-th entry is
\* the result of the i-th task and carries the i-th URL, and total_feeds is
\* the number of input URLs, whatever the order of completion.
C1_AggregateInInputOrder ==
    Returned =>
        /\ Len(aggregate.feeds) = Len(feed_urls)
        /\ aggregate.total_feeds = Len(feed_urls)
        /\ \A i \in Tasks :
               /\ aggregate.feeds[i].url = feed_urls[i]
               /\ aggregate.feeds[i] = taskResult[i]
               /\ aggregate.feeds[i].kind \in {"data", "error"}

\* C1 witness: three targets, completed out of input order, one of them failed
C1_Witness ==
    /\ Returned
    /\ Len(feed_urls) = 3
    /\ doneOrder # <<1, 2, 3>>
    /\ \E i \in Tasks : aggregate.feeds[i].kind = "error"
    /\ \E i \in Tasks : aggregate.feeds[i].kind = "data"

\* C2: at most max_concurrent tasks hold a slot at any time.
C2_AtMostCapInFlight == Cardinality(InFlight) <= max_concurrent

\* C2 witness: more targets than slots, every slot taken, a task waiting
C2_Witness ==
    /\ Len(feed_urls) > max_concurrent
    /\ Cardinality(InFlight) = max_concurrent
    /\ \E i \in Tasks : fpc[i] = "waiting"

\* C3: every task whose request ends in an exception, a timeout or a
\* malformed payload yields an error entry, every task whose request succeeds
\* yields a data entry, and the call returns an aggregate.
C3_FailureBecomesErrorEntry ==
    Returned =>
        \A i \in Tasks :
            /\ response[i] \in {"malformed", "status_error", "timeout"}
                   => aggregate.feeds[i].kind = "error"
            /\ response[i] = "ok" => aggregate.feeds[i].kind = "data"

\* C4: the call has returned only if every task is terminal.
C4_SingleJoinPoint ==
    (Returned \/ aggregate # NotReturned) =>
        \A i \in Tasks :
            fpc[i] = "done" /\ taskResult[i].kind \in {"data", "error"}

\* C4 witness: a call over more targets than slots has returned
C4_Witness ==
    /\ Returned
    /\ Len(feed_urls) = MaxFeeds
    /\ Len(requests) > max_concurrent

\* C6: no request is ever issued for a target the gate rejects; its entry is
\* the unsafe-URL error, the aggregate keeps one entry per target in input
\* order and the entries of the other targets are what their requests gave.
C6_UnsafeTargetNotRequested ==
    /\ \A k \in DOMAIN requests : validate_url(requests[k])
    /\ \A i \in Tasks :
           ~validate_url(feed_urls[i]) =>
               /\ feed_urls[i] \notin Range(requests)
               /\ response[i] = "none"
               /\ Returned =>
                      /\ aggregate.feeds[i] = UnsafeEntry(feed_urls[i])
                      /\ Len(aggregate.feeds) = Len(feed_urls)
                      /\ \A j \in Tasks :
                             response[j] = "ok" =>
                                 aggregate.feeds[j] =
                                     [url |-> feed_urls[j], kind |-> "data",
                                      detail |-> "feed"]

\* C6 witness: the targets [a, http://127.0.0.1/x, b] with two slots
C6_Witness ==
    /\ Returned
    /\ feed_urls = <<UrlA, UrlLoop, UrlB>>
    /\ max_concurrent = 2
    /\ requests \in {<<UrlA, UrlB>>}
    /\ aggregate.total_feeds = 3
    /\ aggregate.feeds =
           <<[url |-> UrlA, kind |-> "data", detail |-> "feed"],
             [url |-> UrlLoop, kind |-> "error", detail |-> UnsafeMsg],
             [url |-> UrlB, kind |-> "data", detail |-> "feed"]>>

\* C7: tasks obtain a slot in input order, the waiting tasks queue in input
\* order behind the admitted ones, and a slot is never free while a task
\* waits: the slot of a terminated task goes to the longest-waiting task.
C7_FifoAdmission ==
    /\ \A k \in DOMAIN admitted : admitted[k] = k
    /\ LET q == Pending(sem_waiters, fpc) IN
           /\ \A k \in DOMAIN q : q[k] = Len(admitted) + k
           /\ q # <<>> => sem_value = 0
    /\ fstage # "idle" =>
           sem_value + Cardinality(InFlight) = max_concurrent

\* C7 witness: one slot, three targets; the first task failed, the second
\* succeeded, and each waiting task was admitted in turn
C7_Witness ==
    /\ max_concurrent = 1
    /\ admitted = <<1, 2, 3>>
    /\ taskResult[1].kind = "error"
    /\ taskResult[2].kind = "data"
    /\ fpc[3] = "inflight"

(***************************************************************************)
(* Property of validate_url (checked under SpecUrl).                       *)
(***************************************************************************)
\* a dotted quad of decimal octets
IsIPv4(host) ==
    /\ Len(host) = 4
    /\ \A i \in 1..4 : IsDecimal(host[i]) /\ IntOf(host[i]) <= 255

\* localhost, 127.0.0.0/8, 10.0.0.0/8, 172.16.0.0/12, 192.168.0.0/16
LoopbackOrPrivate(host) ==
    \/ host = <<"localhost">>
    \/ /\ IsIPv4(host)
       /\ \/ IntOf(host[1]) = 127
          \/ IntOf(host[1]) = 10
          \/ IntOf(host[1]) = 172 /\ IntOf(host[2]) \in 16..31
          \/ IntOf(host[1]) = 192 /\ IntOf(host[2]) = 168

\* C5: validate_url rejects every URL whose scheme is not http or https and
\* every URL whose host is localhost or lies in 127.0.0.0/8, 10.0.0.0/8,
\* 172.16.0.0/12 or 192.168.0.0/16 (it accepts only URLs outside those sets).
C5_GateRejectsLoopbackAndPrivate ==
    (gate # "unchecked"
        /\ (url.scheme \notin {"http", "https"}
            \/ LoopbackOrPrivate(url.host)))
    => gate = "rejected"

(***************************************************************************)
(* Properties of the reply handling (checked under SpecChat).              *)
(***************************************************************************)
\* the turn for the reply "content" has run to its end
TurnDone == session = "active" /\ turn.kind # "none"

Blank(text) == \A i \in DOMAIN text : text[i] = "_"

ArgsOf(args) ==
    ObjV({[k |-> KeyOf(args[i]), v |-> StrV(ValOf(args[i]))] :
             i \in DOMAIN args})

\* the reply is the well-formed use_tool object of tool and args, embedded in
\* prose
EmbedsToolObject(text, tool, args) ==
    \E pre \in Prose, post \in Prose :
        /\ ~Blank(pre \o post)
        /\ text = pre \o ToolObject(tool, args) \o post

\* C8: a reply that embeds a well-formed use_tool object in prose (prose with
\* braces or with a further JSON object included) is handled as the
\* invocation of exactly that tool with exactly those arguments.
C8_EmbeddedToolObjectExtracted ==
    TurnDone =>
        \A tool \in {"tool:search_news", "tool:delete_event", "tool:bogus"},
           args \in {<<>>, <<"query:x">>} :
            EmbedsToolObject(content, tool, args) =>
                /\ turn.kind = "tool"
                /\ turn.tool = StrV(ValOf(tool))
                /\ turn.arguments = ArgsOf(args)

\* no part of the text is a JSON object
NoJsonObject(text) ==
    \A i \in 1..Len(text), j \in 1..Len(text) :
        i <= j => ~json_loads(SubSeq(text, i, j)).ok

\* C9: a reply without any JSON object is a text action with the reply
\* unchanged; the turn presents it and appends it as the assistant message.
C9_PlainTextPresented ==
    (TurnDone /\ NoJsonObject(content)) =>
        /\ turn.kind = "text"
        /\ turn.text = content
        /\ presented = <<Shown("text", content)>>
        /\ messages[Len(messages)] = AssistantText(content)

\* the reply is a malformed JSON object between two pieces of prose
EmbedsMalformed(text) ==
    \E pre \in ProseWithoutBraces, post \in ProseWithoutBraces,
       core \in MalformedCores :
        text = pre \o core \o post

\* C10: a reply whose JSON is malformed (trailing comma, unterminated
\* string) is handled without a fault and as a text action.
C10_MalformedJsonIsText ==
    (TurnDone /\ EmbedsMalformed(content)) =>
        turn.kind # "fault" /\ turn.kind = "text"

(***************************************************************************)
(* Properties of the dispatch of tool calls (checked under SpecDispatch).  *)
(***************************************************************************)
\* the turn called a tool
ToolTurn == TurnDone /\ turn.kind = "tool"

InCatalog(tool) == tool.ty = "str" /\ tool.s \in AllTools

\* the last two messages are the user's and the summary of the call
NoteAppended ==
    /\ Len(messages) >= 2
    /\ messages[Len(messages) - 1] = UserMessage
    /\ messages[Len(messages)] = AssistantSummary(turn.tool, turn.arguments)

\* C11: the call of a tool outside the catalog returns an error that names
\* the tool, issues no remote request whatever the state of the client, and
\* changes the messages only by appending the one assistant note.
C11_UnknownToolNoRemoteCall ==
    (ToolTurn /\ ~InCatalog(turn.tool)) =>
        /\ turn.result = "error"
        /\ presented = <<Shown("json", <<"Unknown tool", turn.tool.s>>)>>
        /\ remote = <<>>
        /\ NoteAppended

\* C12: the call of a catalog tool that lacks one of its required arguments
\* returns an error and issues no remote request.
C12_MissingArgumentNotSent ==
    (ToolTurn /\ InCatalog(turn.tool)
        /\ \E k \in RequiredArgs(turn.tool.s) : ~Has(turn.arguments.o, k)) =>
        /\ turn.result = "error"
        /\ remote = <<>>

\* C13: the call of a catalog tool with its required arguments present issues
\* exactly one remote request, whether the client was connected or not.
C13_ExactlyOneRemoteRequest ==
    (ToolTurn /\ InCatalog(turn.tool)
        /\ \A k \in RequiredArgs(turn.tool.s) : Has(turn.arguments.o, k)) =>
        Len(remote) = 1

\* C14: when the request of a tool fails (no connection, a timeout, a
\* non-success status) call_tool returns the error value with the message of
\* the failure and does not raise.
C14_RemoteFailureReturnsError ==
    (ToolTurn /\ turn.backend \notin {"none", "ok"}) =>
        /\ turn.result = "error"
        /\ presented[Len(presented)].text = <<turn.backend>>

\* C14 witness: the request of add_event timed out and the call returned the
\* error value
C14_Witness ==
    /\ ToolTurn
    /\ turn.tool = StrV("add_event")
    /\ turn.backend = "ReadTimeout"
    /\ turn.result = "error"
    /\ remote = <<"POST /events">>

\* C15: a turn whose tool call ends in an error completes without a fault,
\* keeps the messages of the session (they are only extended), leaves the
\* session active, and the next user message is taken as any other.
C15_ToolErrorKeepsSession ==
    [][/\ (session = "awaiting" /\ turn'.kind = "tool"
              /\ turn'.result = "error") =>
              /\ turn'.fault = ""
              /\ session' = "active"
              /\ Len(messages') >= Len(messages)
              /\ SubSeq(messages', 1, Len(messages)) = messages
       /\ (session = "active" /\ turn.kind = "tool" /\ turn.result = "error"
              /\ session' = "awaiting") =>
              messages' = Append(messages, UserMessage)]_vars

\* C15 witness: the first turn called a tool outside the catalog (an error),
\* the second turn of the same session called search_news and succeeded
C15_Witness ==
    /\ Len(messages) = 4
    /\ messages[2].kind = "summary" /\ messages[2].tool = StrV("bogus")
    /\ ToolTurn
    /\ turn.tool = StrV("search_news")
    /\ turn.result = "ok"
    /\ NoteAppended

(***************************************************************************)
(* Properties of two sessions on one client (checked under SpecSessions).  *)
(***************************************************************************)
Running(state) == state \in {"active", "awaiting"}

\* C16: sessions are independent: a step of one session's handlers (start,
\* turn, tool call, stop) changes nothing that the handlers of another
\* running session read or write - here the state of the client they call
\* tools through, and the other session's own state.
C16_SessionsIndependent ==
    [][/\ (peer' # peer /\ Running(session)) =>
              /\ UNCHANGED <<connected, available_tools>>
              /\ UNCHANGED sessionLocal
       /\ (session' # session /\ Running(peer)) =>
              UNCHANGED <<connected, available_tools>>]_vars

(***************************************************************************)
(* Properties of the event store (checked under SpecEvents).               *)
(***************************************************************************)
\* C17: delete_event with an id that no stored event has answers "not found"
\* (404) and leaves the stored events as they were: number, content, order.
C17_DeleteUnknownKeepsStore ==
    [][(/\ answer' # answer
        /\ answer'.op = "delete"
        /\ \A i \in DOMAIN events : events[i].id # answer'.id) =>
           /\ answer'.status = 404
           /\ events' = events]_vars

\* C17 witness: two events are stored and a delete named an id that add_event
\* could have given but that neither of them has
C17_Witness ==
    /\ answer.op = "delete"
    /\ answer.status = 404
    /\ answer.id # NoId
    /\ Len(events) = 2
    /\ \A i \in DOMAIN events : events[i].id # answer.id

\* C18: get_events(date = d) returns every stored event of date d (so the
\* one just added), only events of date d, and lists them in ascending order
\* of their time of day.
C18_EventsOfDateAscending ==
    (answer.op = "get" /\ answer.status = 200 /\ answer.date # NoDate) =>
        /\ \A i \in DOMAIN events :
               events[i].date = answer.date =>
                   \E j \in DOMAIN answer.events : answer.events[j] = events[i]
        /\ \A j \in DOMAIN answer.events :
               answer.events[j].date = answer.date
        /\ \A j, k \in DOMAIN answer.events :
               j < k => Minutes(answer.events[j].time)
                           <= Minutes(answer.events[k].time)

(***************************************************************************)
(* Properties of the replies that are JSON only (checked under SpecChat).  *)
(***************************************************************************)
\* the reply is the use_tool object of tool and args and nothing else but
\* white space around it
IsToolObject(text, tool, args) ==
    \E pre \in {<<>>, <<"_">>}, post \in {<<>>, <<"_">>} :
        text = pre \o ToolObject(tool, args) \o post

\* C19: a reply that is only the object {"action": "use_tool", "tool": T,
\* "arguments": A} is handled as the invocation of T with A: generate_response
\* and extract_json_from_text read the same T and A from it, and the turn
\* reaches handle_tool_call with them.
C19_PureToolObjectInvoked ==
    TurnDone =>
        \A tool \in {"tool:search_news", "tool:delete_event", "tool:bogus"},
           args \in {<<>>, <<"query:x">>} :
            IsToolObject(content, tool, args) =>
                LET first == generate_response(content, TRUE)
                    second == extract_json_from_text(Strip(content))
                IN  /\ first.type = "tool_call"
                    /\ second.ty = "obj"
                    /\ first.tool = GetOr(second.o, "tool", NoneV)
                    /\ first.arguments = GetOr(second.o, "arguments", NoneV)
                    /\ first.tool = StrV(ValOf(tool))
                    /\ first.arguments = ArgsOf(args)
                    /\ turn.kind = "tool"
                    /\ turn.tool = first.tool
                    /\ turn.arguments = first.arguments

\* the object has no "action", an "action" other than "use_tool", or no
\* "tool"
LacksRequiredField(d) ==
    \/ ~Has(d, "action")
    \/ Get(d, "action") # StrV("use_tool")
    \/ ~Has(d, "tool")

\* the reply is prose around one JSON object that parses and lacks a
\* required field
EmbedsIncomplete(text) ==
    \E pre \in ProseWithoutBraces, post \in ProseWithoutBraces,
       core \in OtherCores \ {<<>>} :
        /\ text = pre \o core \o post
        /\ json_loads(core).ok
        /\ LacksRequiredField(json_loads(core).val.o)

\* C20: a reply whose JSON object parses but lacks a required field is
\* handled as a text action that carries the original text, without a fault.
C20_IncompleteObjectIsText ==
    (TurnDone /\ EmbedsIncomplete(content)) =>
        /\ turn.fault = ""
        /\ turn.kind = "text"
        /\ turn.text = Strip(content)
        /\ presented = <<Shown("text", Strip(content))>>

\* the reply is prose around a use_tool object that names tool and has no
\* "arguments"
EmbedsWithoutArguments(text, tool) ==
    \E pre \in ProseWithoutBraces, post \in ProseWithoutBraces :
        text = pre \o <<"{", "action:use_tool", ",", tool, "}">> \o post

\* C21: a use_tool object that names a tool and has no "arguments" invokes
\* the tool with the empty argument set; it is neither an error nor a fault.
C21_MissingArgumentsAreEmpty ==
    (TurnDone /\ EmbedsWithoutArguments(content, "tool:search_news")) =>
        /\ turn.fault = ""
        /\ turn.kind = "tool"
        /\ turn.tool = StrV("search_news")
        /\ turn.arguments = ObjV({})

(***************************************************************************)
(* Properties of the messages of a session.                                *)
(***************************************************************************)
\* the step is the part of a turn after the model's reply
TurnEnds == session = "awaiting" /\ session' = "active"

\* C22: a turn that ends as a text action appends exactly one assistant
\* message with the action's content, presents that content, and issues no
\* request to the backend (the client is left as it was).
C22_TextActionAppendsOne ==
    [][(TurnEnds /\ turn'.kind = "text") =>
           /\ messages' = Append(messages, AssistantText(turn'.text))
           /\ presented' = <<Shown("text", turn'.text)>>
           /\ remote' = <<>>
           /\ UNCHANGED <<connected, available_tools>>]_vars

\* C22 witness: the second turn of a session ended as a text action, after a
\* first turn that called a tool
C22_Witness ==
    /\ TurnDone
    /\ turn.kind = "text"
    /\ Len(messages) = 4
    /\ messages[2].kind = "summary"
    /\ messages[4] = AssistantText(turn.text)
    /\ presented = <<Shown("text", turn.text)>>
    /\ remote = <<>>

IsPrefix(a, b) == Len(a) <= Len(b) /\ SubSeq(b, 1, Len(a)) = a

\* C24: the messages of a session are append-only over its turns: the first
\* part of a turn appends the user message, the second appends at most one
\* assistant message, and no step of a turn or of on_stop changes, removes
\* or reorders a message that is there.
C24_MessagesAppendOnly ==
    [][/\ (session = "active" /\ session' = "awaiting") =>
              messages' = Append(messages, UserMessage)
       /\ TurnEnds =>
              /\ IsPrefix(messages, messages')
              /\ Len(messages') <= Len(messages) + 1
              /\ Len(messages') = Len(messages) + 1 =>
                     messages'[Len(messages')].role = "assistant"
       /\ session' = "stopped" => messages' = messages]_vars

\* C24 witness: two turns, the first ended in a fault after the user message
\* was appended, the second appended its assistant message after it
C24_Witness ==
    /\ TurnDone
    /\ Len(messages) = 3
    /\ messages[1] = UserMessage
    /\ messages[2] = UserMessage
    /\ messages[3].role = "assistant"

(***************************************************************************)
(* Properties of the ids of the event store (checked under SpecEvents).    *)
(***************************************************************************)
\* C25: whatever add_event and delete_event did before, and however many of
\* them fell into one second, the stored events have pairwise distinct ids
\* (so that a delete by id removes the event the id was given to).
C25_EventIdsDistinct ==
    \A i, j \in DOMAIN events : i # j => events[i].id # events[j].id

(***************************************************************************)
(* Properties of the configuration (checked under SpecConfig).             *)
(***************************************************************************)
\* C26: whatever updates were accepted and rejected, max_concurrent_requests
\* is an integer of at least 1, in the configuration and as the cap that
\* get_rss_feeds hands to the fetcher.
C26_CapAtLeastOne ==
    /\ config["max_concurrent_requests"] \in Int
    /\ config["max_concurrent_requests"] >= 1
    /\ max_concurrent >= 1

(***************************************************************************)
(* Termination of fetch_feeds_concurrent (checked under SpecFetchFair).    *)
(***************************************************************************)
\* how often x occurs in the sequence
Count(seq, x) == Cardinality({i \in DOMAIN seq : seq[i] = x})

AllDone == \A i \in Tasks : fpc[i] = "done"

\* all slots of the semaphore are free and nobody waits for one
AllSlotsFree == sem_value = max_concurrent /\ sem_waiters = <<>>

\* C27: for every list of targets and every cap of at least 1, if every
\* issued request completes, then every task ends, the call returns, no
\* target is requested more often than it is in the list (no retry), and at
\* the return every slot of the semaphore is free.
C27_FetchTerminates ==
    /\ <>AllDone
    /\ <>Returned
    /\ [](\A u \in FairTargets :
             Count(requests, u) <= Count(feed_urls, u))
    /\ [](Returned => AllDone /\ AllSlotsFree)

\* C27 witness: three targets under the cap 1 - so two tasks had to wait -
\* and the call has returned with the slot free
C27_Witness ==
    /\ Returned
    /\ Len(feed_urls) = 3
    /\ max_concurrent = 1
    /\ Len(requests) >= 2
    /\ AllDone
    /\ AllSlotsFree

====
